---- MODULE Spec2Model ----
(***************************************************************************)
(* Model of main.py: a CSV table of connections is turned into a graph by  *)
(* create_graph, calculate_shortest_paths runs Dijkstra's algorithm on it  *)
(* for one metric, get_best_path walks the predecessor links, and the main *)
(* block reports the shortest path (by distance) and then the cheapest     *)
(* path (by cost) between the two vertices named on the command line.      *)
(***************************************************************************)
EXTENDS Integers, Sequences, FiniteSets, TLC

\* Largest distance number of a cell of connections.csv.
MaxDist == 2
\* Largest second number (price per unit of distance) of a cell.
MaxRate == 2
\* Largest number of cells that read zero in one direction only.
MaxOneWay == 1

\* float("inf"); the accumulators are non-negative, so -1 is free to stand for it.
Inf == -1
\* Python's None, the best_neighbour of a vertex nobody has improved.
None == "None"

\* The row labels (column POINT) of connections.csv, in file order; the
\* columns carry the same labels in the same order.
VertexOrder == <<"A", "B", "C">>
Vertices == {VertexOrder[i] : i \in 1..Len(VertexOrder)}
\* A label that is no row of the file, for command lines naming an unknown vertex.
Unknown == "Z"
Labels == Vertices \cup {Unknown}
\* The metrics of the two reports, in the order main runs them.
Metrics == <<"distance", "cost">>

VARIABLES
    connections,     \* content of connections.csv: row -> column -> <<number, number>>
    start,           \* sys.argv[1]
    finish,          \* sys.argv[2]
    pc,              \* position of the program
    metric,          \* metric of the running calculate_shortest_paths
    graph,           \* create_graph() of the running report
    nodes,           \* nodes of the running calculate_shortest_paths
    unvisited_nodes, \* its list of unvisited vertices
    current_node,    \* the vertex removed last
    pending,         \* neighbours of current_node still to be iterated
    iterations,      \* passes of the while loop so far in this run
    best_path,       \* what get_best_path returned to the running report
    reports          \* what has been printed: one record per finished report

vars == <<connections, start, finish, pc, metric, graph, nodes, unvisited_nodes,
          current_node, pending, iterations, best_path, reports>>

----------------------------------------------------------------------------
\* Arithmetic on accumulators that may be float("inf").

\* a < b
Lt(a, b) == a # Inf /\ (b = Inf \/ a < b)

\* Faulty variant: the sum taken without regard to infinity.
PlusInt(a, b) == a + b

\* a + b
Plus(a, b) == IF a = Inf \/ b = Inf THEN Inf ELSE a + b

Range(s) == {s[i] : i \in 1..Len(s)}

\* Faulty variant: the vertex is never taken off the list.
RemoveNothing(s, x) == s

\* list.remove(x): drops the first occurrence of x.
RECURSIVE Remove(_, _)
Remove(s, x) ==
    IF s = <<>> THEN <<>>
    ELSE IF Head(s) = x THEN Tail(s)
    ELSE <<Head(s)>> \o Remove(Tail(s), x)

----------------------------------------------------------------------------
\* create_graph

\* The cells a table may hold: "0" or two positive numbers.
Cells == {<<0, 0>>} \cup ((1..MaxDist) \X (1..MaxRate))

UnorderedPairs == {e \in SUBSET Vertices : Cardinality(e) = 2}
DirectedPairs == {e \in Vertices \X Vertices : e[1] # e[2]}

\* The table with cell w[{u,v}] in both directions, zero on the diagonal and
\* zero in the cells of blocked.
TableOf(w, blocked) ==
    [u \in Vertices |->
        [v \in Vertices |->
            IF u = v \/ <<u, v>> \in blocked THEN <<0, 0>> ELSE w[{u, v}]]]

Tables ==
    {TableOf(w, blocked) :
        w \in [UnorderedPairs -> Cells],
        blocked \in {b \in SUBSET DirectedPairs : Cardinality(b) <= MaxOneWay}}

create_graph(table) ==
    [u \in DOMAIN table |->
        [v \in {c \in DOMAIN table[u] : 0 \notin Range(table[u][c])} |->
            [distance |-> table[u][v][1],
             cost     |-> table[u][v][1] * table[u][v][2]]]]

\* Iteration order of the dictionary graph[u]: the columns left in the row.
NeighbourOrder(g, u) == SelectSeq(VertexOrder, LAMBDA v : v \in DOMAIN g[u])

\* Iteration order of the dictionary graph: the rows of the file.
KeyOrder(g) == SelectSeq(VertexOrder, LAMBDA v : v \in DOMAIN g)

----------------------------------------------------------------------------
\* calculate_shortest_paths and recalculate_neighbour_position

\* Faulty variant: a lookup that never fails.
HasKeyAlways(d, k) == TRUE

\* d[k] raises KeyError unless k is a key of d.
HasKey(d, k) == k \in DOMAIN d

\* The for loop that fills nodes and unvisited_nodes.
InitialNodes(g) ==
    [v \in DOMAIN g |-> [cost |-> Inf, distance |-> Inf, best_neighbour |-> None]]

\* nodes[starting_vertex]["cost"] = 0; nodes[starting_vertex]["distance"] = 0
WithStart(ns, s) == [ns EXCEPT ![s].cost = 0, ![s].distance = 0]

\* The scan for the unvisited vertex of least metric: the first one wins a tie.
RECURSIVE ScanNearest(_, _, _, _)
ScanNearest(ns, m, rest, nearest) ==
    IF rest = <<>> THEN nearest
    ELSE IF Lt(ns[Head(rest)][m], ns[nearest][m])
         THEN ScanNearest(ns, m, Tail(rest), Head(rest))
         ELSE ScanNearest(ns, m, Tail(rest), nearest)

\* Faulty variant: the scan is skipped and the first unvisited vertex is taken.
nearest_first(ns, m, unvisited) == unvisited[1]

nearest_node(ns, m, unvisited) == ScanNearest(ns, m, unvisited, unvisited[1])

\* Faulty variant: an equal candidate replaces the neighbour too.
ImprovesOrEqual(m, node, alternate_distance, alternate_cost) ==
    \/ m = "distance" /\ ~Lt(node.distance, alternate_distance)
    \/ m = "cost" /\ ~Lt(node.cost, alternate_cost)

\* Faulty variant: the comparison is the wrong way round.
ImprovesReversed(m, node, alternate_distance, alternate_cost) ==
    \/ m = "distance" /\ Lt(node.distance, alternate_distance)
    \/ m = "cost" /\ Lt(node.cost, alternate_cost)

\* Faulty variant: each metric is compared under the other metric's name.
ImprovesOtherMetric(m, node, alternate_distance, alternate_cost) ==
    \/ m = "cost" /\ Lt(alternate_distance, node.distance)
    \/ m = "distance" /\ Lt(alternate_cost, node.cost)

\* The condition under which a neighbour is rewritten.
Improves(m, node, alternate_distance, alternate_cost) ==
    \/ m = "distance" /\ Lt(alternate_distance, node.distance)
    \/ m = "cost" /\ Lt(alternate_cost, node.cost)

\* Faulty variant: the cost of the neighbour is not rewritten.
UpdatedWithoutCost(node, u, alternate_distance, alternate_cost) ==
    [distance |-> alternate_distance, cost |-> node.cost, best_neighbour |-> u]

\* The three assignments to the neighbour; int() of an integer is that integer.
Updated(node, u, alternate_distance, alternate_cost) ==
    [distance |-> alternate_distance, cost |-> alternate_cost, best_neighbour |-> u]

\* One pass of the for loop of recalculate_neighbour_position.
Relaxed(g, ns, u, v, m) ==
    LET alternate_distance == Plus(g[u][v].distance, ns[u].distance)
        alternate_cost == Plus(g[u][v].cost, ns[u].cost)
    IN  IF Improves(m, ns[v], alternate_distance, alternate_cost)
        THEN [ns EXCEPT ![v] = Updated(ns[v], u, alternate_distance, alternate_cost)]
        ELSE ns

----------------------------------------------------------------------------
\* get_best_path

Reverse(s) == [i \in 1..Len(s) |-> s[Len(s) + 1 - i]]

\* Faulty variant: the predecessor is followed once only.
WalkBackOnce(ns, path) ==
    LET destination == ns[path[Len(path)]].best_neighbour
    IN  IF destination = None THEN path ELSE Append(path, destination)

\* The while loop: the list grows by the predecessor of its last element
\* until that is None. A predecessor already in the list is met again and
\* again: the loop never ends, which <<>> stands for.
RECURSIVE WalkBack(_, _)
WalkBack(ns, path) ==
    LET destination == ns[path[Len(path)]].best_neighbour
    IN  IF destination = None THEN path
        ELSE IF destination \in Range(path) THEN <<>>
        ELSE WalkBack(ns, Append(path, destination))

\* detailed_path: every vertex followed by "-", as a sequence of pieces.
RECURSIVE Detailed(_)
Detailed(path) ==
    IF path = <<>> THEN <<>> ELSE <<Head(path), "-">> \o Detailed(Tail(path))

\* detailed_path[:-1]
DropLast(s) == SubSeq(s, 1, Len(s) - 1)

\* Faulty variant: an unknown destination counts as a vertex without predecessor.
get_best_path_lenient(ns, destination) ==
    IF ~HasKey(ns, destination) THEN [outcome |-> "returns", value |-> <<destination>>]
    ELSE LET path == WalkBack(ns, <<destination>>)
         IN  IF path = <<>> THEN [outcome |-> "hangs", value |-> <<>>]
             ELSE [outcome |-> "returns", value |-> DropLast(Detailed(Reverse(path)))]

get_best_path(ns, destination) ==
    IF ~HasKey(ns, destination) THEN [outcome |-> "KeyError", value |-> <<>>]
    ELSE LET path == WalkBack(ns, <<destination>>)
         IN  IF path = <<>> THEN [outcome |-> "hangs", value |-> <<>>]
             ELSE [outcome |-> "returns", value |-> DropLast(Detailed(Reverse(path)))]

----------------------------------------------------------------------------
\* The program

Init ==
    /\ connections \in Tables
    /\ start \in Labels
    /\ finish \in Labels
    /\ pc = "call"
    /\ metric = None
    /\ graph = <<>>
    /\ nodes = <<>>
    /\ unvisited_nodes = <<>>
    /\ current_node = None
    /\ pending = <<>>
    /\ iterations = 0
    /\ best_path = <<>>
    /\ reports = <<>>

\* print_shortest_path, then print_cheapest_path, up to the while loop of
\* calculate_shortest_paths: the graph is built and the nodes are set up.
Begin ==
    /\ pc = "call"
    /\ metric' = Metrics[Len(reports) + 1]
    /\ graph' = create_graph(connections)
    /\ IF HasKey(InitialNodes(graph'), start)
       THEN /\ nodes' = WithStart(InitialNodes(graph'), start)
            /\ pc' = "loop"
       ELSE /\ nodes' = InitialNodes(graph')
            /\ pc' = "KeyError_start"
    /\ unvisited_nodes' = KeyOrder(graph')
    /\ current_node' = None
    /\ pending' = <<>>
    /\ iterations' = 0
    /\ best_path' = <<>>
    /\ UNCHANGED <<connections, start, finish, reports>>

\* One pass of the while loop up to the call of recalculate_neighbour_position.
SelectNearest ==
    /\ pc = "loop"
    /\ unvisited_nodes # <<>>
    /\ current_node' = nearest_node(nodes, metric, unvisited_nodes)
    /\ unvisited_nodes' = Remove(unvisited_nodes, current_node')
    /\ pending' = NeighbourOrder(graph, current_node')
    /\ pc' = IF pending' = <<>> THEN "loop" ELSE "relax"
    /\ iterations' = iterations + 1
    /\ UNCHANGED <<connections, start, finish, metric, graph, nodes, best_path, reports>>

\* One neighbour of current_node in recalculate_neighbour_position.
RelaxNeighbour ==
    /\ pc = "relax"
    /\ pending # <<>>
    /\ nodes' = Relaxed(graph, nodes, current_node, Head(pending), metric)
    /\ pending' = Tail(pending)
    /\ pc' = IF pending' = <<>> THEN "loop" ELSE "relax"
    /\ UNCHANGED <<connections, start, finish, metric, graph, unvisited_nodes,
                   current_node, iterations, best_path, reports>>

\* The while loop ends and calculate_shortest_paths returns nodes.
Return ==
    /\ pc = "loop"
    /\ unvisited_nodes = <<>>
    /\ pc' = "returned"
    /\ UNCHANGED <<connections, start, finish, metric, graph, nodes, unvisited_nodes,
                   current_node, pending, iterations, best_path, reports>>

\* The report calls get_best_path(nodes, destination).
GetBestPath ==
    /\ pc = "returned"
    /\ LET r == get_best_path(nodes, finish)
       IN  /\ pc' = CASE r.outcome = "KeyError" -> "KeyError_destination"
                      [] r.outcome = "hangs" -> "hangs"
                      [] OTHER -> "path"
           /\ best_path' = r.value
    /\ UNCHANGED <<connections, start, finish, metric, graph, nodes, unvisited_nodes,
                   current_node, pending, iterations, reports>>

\* The report is printed: the path, the distance and the cost of the destination.
PrintReport ==
    /\ pc = "path"
    /\ IF HasKey(nodes, finish)
       THEN /\ reports' = Append(reports,
                    [metric |-> metric, path |-> best_path,
                     distance |-> nodes[finish].distance,
                     cost |-> nodes[finish].cost])
            /\ pc' = IF Len(reports') = Len(Metrics) THEN "exit" ELSE "call"
       ELSE /\ reports' = reports
            /\ pc' = "KeyError_destination"
    /\ UNCHANGED <<connections, start, finish, metric, graph, nodes, unvisited_nodes,
                   current_node, pending, iterations, best_path>>

Next ==
    \/ Begin
    \/ SelectNearest
    \/ RelaxNeighbour
    \/ Return
    \/ GetBestPath
    \/ PrintReport

Spec == Init /\ [][Next]_vars

\* The program is one sequential process: it keeps running until it exits or fails.
FairSpec == Spec /\ WF_vars(Next)

----------------------------------------------------------------------------
\* What the properties are measured against: the paths of the graph.

\* p follows edges of g only.
FollowsEdges(g, p) ==
    \A i \in 1..(Len(p) - 1) : p[i] \in DOMAIN g /\ p[i + 1] \in DOMAIN g[p[i]]

\* The simple paths of g that begin with the simple path p.
RECURSIVE PathsFrom(_, _)
PathsFrom(g, p) ==
    {p} \cup UNION {PathsFrom(g, Append(p, v)) :
                        v \in (DOMAIN g[p[Len(p)]] \cap DOMAIN g) \ Range(p)}

\* The simple paths of g from s to v.
SimplePaths(g, s, v) ==
    IF s \in DOMAIN g THEN {p \in PathsFrom(g, <<s>>) : p[Len(p)] = v} ELSE {}

Reachable(g, s, v) == SimplePaths(g, s, v) # {}

\* The sum of the m-weights of the edges of p.
RECURSIVE PathSum(_, _, _)
PathSum(g, p, m) ==
    IF Len(p) < 2 THEN 0 ELSE g[p[1]][p[2]][m] + PathSum(g, Tail(p), m)

MinSum(g, s, v, m) ==
    LET sums == {PathSum(g, p, m) : p \in SimplePaths(g, s, v)}
    IN  CHOOSE x \in sums : \A y \in sums : x <= y

\* The vertices of a rendered path such as A-G-C-J.
PathVertices(detailed) == SelectSeq(detailed, LAMBDA t : t # "-")

Secondary(m) == IF m = "distance" THEN "cost" ELSE "distance"

InRun == pc \in {"loop", "relax", "returned", "path"}

\* A report has just been printed.
Reported == pc \in {"call", "exit"} /\ reports # <<>>

----------------------------------------------------------------------------
\* C1: when calculate_shortest_paths returns, every vertex reachable from the
\* start has as its primary accumulator the least sum of primary weights over
\* all simple paths from the start to it.
C1_Optimal ==
    pc = "returned" =>
        \A v \in DOMAIN graph :
            Reachable(graph, start, v) =>
                nodes[v][metric] = MinSum(graph, start, v, metric)

\* A returned run in which a two-edge path beats the direct edge.
C1_Witness ==
    /\ pc = "returned"
    /\ \E v \in DOMAIN graph :
        /\ v \in DOMAIN graph[start]
        /\ nodes[v][metric] < graph[start][v][metric]

\* C2 (as amended): the secondary value of every report on a reachable
\* destination is the sum of the secondary weights along that report's own
\* path; it is never smaller than the value the other report gives for that
\* metric, and need not equal it.
C2_SecondaryAlongPath ==
    (Reported /\ Reachable(graph, start, finish)) =>
        /\ \A i \in 1..Len(reports) :
            /\ FollowsEdges(graph, PathVertices(reports[i].path))
            /\ reports[i][Secondary(reports[i].metric)] =
                 PathSum(graph, PathVertices(reports[i].path),
                         Secondary(reports[i].metric))
        /\ Len(reports) = 2 =>
            /\ reports[1].cost >= reports[2].cost
            /\ reports[2].distance >= reports[1].distance

\* Both reports are out, their paths differ and the shortest path costs more
\* than the cheapest one.
C2_Witness ==
    /\ Len(reports) = 2
    /\ Reachable(graph, start, finish)
    /\ reports[1].path # reports[2].path
    /\ reports[1].cost > reports[2].cost

\* C2 as stated: in addition, whenever the two reported paths differ, each
\* report's secondary value differs from the other report's value.
C2_Original ==
    (Reported /\ Reachable(graph, start, finish)) =>
        /\ \A i \in 1..Len(reports) :
            reports[i][Secondary(reports[i].metric)] =
                PathSum(graph, PathVertices(reports[i].path),
                        Secondary(reports[i].metric))
        /\ (Len(reports) = 2 /\ reports[1].path # reports[2].path) =>
            /\ reports[1].cost # reports[2].cost
            /\ reports[2].distance # reports[1].distance

\* C3: for a reachable destination, the primary weights along the path
\* get_best_path returned add up to the destination's primary accumulator.
C3_RoundTrip ==
    (pc = "path" /\ Reachable(graph, start, finish)) =>
        /\ FollowsEdges(graph, PathVertices(best_path))
        /\ PathSum(graph, PathVertices(best_path), metric) = nodes[finish][metric]

\* get_best_path returned a path of three vertices.
C3_Witness ==
    /\ pc = "path"
    /\ Reachable(graph, start, finish)
    /\ Len(PathVertices(best_path)) = 3

\* A step of a run keeps the primary accumulator of every finalized vertex.
FinalizedKept ==
    pc # "call" =>
        \A v \in DOMAIN nodes :
            v \notin Range(unvisited_nodes) =>
                /\ v \in DOMAIN nodes'
                /\ nodes'[v][metric] = nodes[v][metric]

\* C4: once a vertex is off unvisited_nodes, no later step of the run
\* changes its primary accumulator.
C4_Monotone == [][FinalizedKept]_vars

\* The neighbour about to be examined is a finalized vertex other than the
\* start, reached over an edge from a reachable vertex.
C4_Witness ==
    /\ pc = "relax"
    /\ Head(pending) \notin Range(unvisited_nodes)
    /\ Head(pending) # start
    /\ nodes[current_node][metric] # Inf

\* C5 (as amended): when the start vertex is no key of the graph, the run
\* fails with KeyError at the start vertex's assignments: the loop is never
\* entered, nothing is returned and nothing is reported.
C5_StartAbsentFails ==
    (pc # "call" /\ start \notin DOMAIN graph) =>
        /\ pc = "KeyError_start"
        /\ iterations = 0
        /\ reports = <<>>

C5_Witness == pc = "KeyError_start" /\ start \notin DOMAIN graph

\* C5 as stated: with a start vertex that is no key of the graph the run
\* completes, every vertex keeping infinite accumulators and no predecessor.
C5_Original ==
    (pc # "call" /\ start \notin DOMAIN graph) =>
        /\ pc # "KeyError_start"
        /\ \A v \in DOMAIN nodes :
            nodes[v] = [cost |-> Inf, distance |-> Inf, best_neighbour |-> None]

\* C6: a vertex other than the start that no path from the start reaches is
\* returned with both accumulators infinite and no predecessor, and its
\* path is the vertex alone.
C6_Unreachable ==
    /\ pc \in {"returned", "path"} =>
        \A v \in DOMAIN graph :
            (v # start /\ ~Reachable(graph, start, v)) =>
                /\ nodes[v] = [cost |-> Inf, distance |-> Inf, best_neighbour |-> None]
                /\ get_best_path(nodes, v) = [outcome |-> "returns", value |-> <<v>>]
    /\ (/\ pc = "path"
        /\ finish \in DOMAIN graph
        /\ finish # start
        /\ ~Reachable(graph, start, finish)) => best_path = <<finish>>

\* The path of an unreachable destination that has edges of its own.
C6_Witness ==
    /\ pc = "path"
    /\ finish \in DOMAIN graph
    /\ finish # start
    /\ ~Reachable(graph, start, finish)
    /\ DOMAIN graph[finish] # {}

\* A step of the loop either starts a pass, which takes one vertex off
\* unvisited_nodes, or leaves the list alone and either returns or has one
\* neighbour less to examine.
OneVertexPerPass ==
    pc \in {"loop", "relax"} =>
        \/ /\ iterations' = iterations + 1
           /\ Len(unvisited_nodes') = Len(unvisited_nodes) - 1
           /\ Range(unvisited_nodes') \subseteq Range(unvisited_nodes)
        \/ /\ iterations' = iterations
           /\ unvisited_nodes' = unvisited_nodes
           /\ pc' = "returned" \/ Len(pending') < Len(pending)

\* C7: every pass of the while loop takes exactly one vertex off
\* unvisited_nodes and no step adds one; the loop ends after as many passes
\* as the graph has vertices, with the list empty, and the function returns.
C7_Termination ==
    /\ [](pc = "returned" =>
            unvisited_nodes = <<>> /\ iterations = Cardinality(DOMAIN graph))
    /\ [][OneVertexPerPass]_vars
    /\ (pc = "loop" ~> pc = "returned")

C7_Witness ==
    pc = "returned" /\ iterations = Len(VertexOrder) /\ unvisited_nodes = <<>>

\* The call of get_best_path with a destination that is no key of nodes.
UnknownDestinationRaises ==
    (pc = "returned" /\ finish \notin DOMAIN nodes) =>
        /\ pc' = "KeyError_destination"
        /\ best_path' = <<>>
        /\ nodes' = nodes
        /\ reports' = reports

\* C8: get_best_path with a destination that is no key of nodes fails with
\* KeyError, returns no path and leaves nodes as it was.
C8_InvalidDestination == [][UnknownDestinationRaises]_vars

C8_Witness == pc = "KeyError_destination" /\ finish \notin DOMAIN nodes

\* What one neighbour's step of recalculate_neighbour_position does to nodes.
RelaxationStep ==
    pc = "relax" =>
        LET u == current_node
            v == Head(pending)
            better ==
                /\ nodes[u][metric] # Inf
                /\ \/ nodes[v][metric] = Inf
                   \/ nodes[u][metric] + graph[u][v][metric] < nodes[v][metric]
        IN  IF better
            THEN nodes' = [nodes EXCEPT ![v] =
                    [distance |-> nodes[u].distance + graph[u][v].distance,
                     cost |-> nodes[u].cost + graph[u][v].cost,
                     best_neighbour |-> u]]
            ELSE nodes' = nodes

\* C9: a step of recalculate_neighbour_position from u to its neighbour v
\* rewrites v's distance, cost and best_neighbour together, with u's
\* accumulators plus the edge's weights and with u, exactly when the
\* candidate primary value is strictly less than v's primary accumulator;
\* otherwise nodes is unchanged; no other vertex is ever changed.
C9_Relaxation == [][RelaxationStep]_vars

\* The candidate equals the neighbour's primary accumulator and its
\* secondary value is smaller.
C9_Witness ==
    /\ pc = "relax"
    /\ nodes[current_node][metric] # Inf
    /\ nodes[Head(pending)][metric] =
         nodes[current_node][metric] + graph[current_node][Head(pending)][metric]
    /\ nodes[current_node][Secondary(metric)]
         + graph[current_node][Head(pending)][Secondary(metric)]
       < nodes[Head(pending)][Secondary(metric)]

\* The predecessors of v lead to the start without meeting a vertex twice.
RECURSIVE ChainToStart(_, _)
ChainToStart(v, seen) ==
    IF v = start THEN nodes[v].best_neighbour = None
    ELSE LET b == nodes[v].best_neighbour
         IN  /\ b # None
             /\ b \notin seen
             /\ ChainToStart(b, seen \cup {b})

\* C10: throughout a run the start has no predecessor and every predecessor
\* is a finalized vertex whose own predecessors lead to the start without a
\* repetition; get_best_path ends for every vertex, and the path of a
\* reachable destination goes from the start to it along edges of the graph.
C10_PredecessorsLeadToStart ==
    /\ InRun =>
        /\ nodes[start].best_neighbour = None
        /\ \A v \in DOMAIN nodes :
            nodes[v].best_neighbour # None =>
                /\ nodes[v].best_neighbour \in DOMAIN nodes
                /\ nodes[v].best_neighbour \notin Range(unvisited_nodes)
                /\ ChainToStart(v, {v})
    /\ pc = "returned" =>
        \A d \in DOMAIN nodes : get_best_path(nodes, d).outcome = "returns"
    /\ (pc = "path" /\ Reachable(graph, start, finish)) =>
        LET p == PathVertices(best_path)
        IN  /\ p[1] = start
            /\ p[Len(p)] = finish
            /\ FollowsEdges(graph, p)

\* In the middle of a run some vertex has a predecessor that has one too.
C10_Witness ==
    /\ pc = "relax"
    /\ \E v \in DOMAIN nodes :
        /\ nodes[v].best_neighbour # None
        /\ nodes[nodes[v].best_neighbour].best_neighbour # None

====
